---- MODULE Spec2Model ----
(***************************************************************************)
(* A model of the stand-alone teaching programs of the repository.  Each   *)
(* source file is its own executable with its own main(); the variable     *)
(* prog says which program a behaviour is a run of, and only that          *)
(* program's variables change during the run.                              *)
(*                                                                         *)
(*   "mt"      multithreading            (ThreadSafeCounter)               *)
(*   "pc"      multithreading            (ProducerConsumer's two threads)  *)
(*   "race"    multithreading            (demonstrateRaceConditions)       *)
(*   "main"    multithreading            (main and its std::thread objects)*)
(*   "exc"     16_exception_handling.cpp (RAIIResource, stack unwinding)   *)
(*   "file"    25_file_io.cpp            (TextFileHandler)                 *)
(*   "bank"    13_friend_functions.cpp   (BankAccount, transfer)           *)
(*   "static"  08_static_keyword.cpp     (regularCounter, staticCounter)   *)
(*   "param"   22_lambda_functions.cpp   (passByValue/Reference/Pointer)   *)
(*   "inh"     10_inheritance.cpp        (Animal, Dog)                     *)
(*   "macro"   24_preprocessor.cpp       (SQUARE, BAD_SQUARE)              *)
(***************************************************************************)
EXTENDS Integers, Sequences, FiniteSets, TLC

\* ------------------------------------------------------------------ bounds
NumThreads == 2
MaxCalls == 4

\* ---------------------------------------------------------------- variables
VARIABLES
    prog,
    \* ThreadSafeCounter and the threads that call it
    count, mtx, tpc, top, tmp, ncalls, initial, ninc, ndec, sumadd,
    \* regularCounter / staticCounter
    staticCount, nStatic, nRegular, retStatic, retRegular,
    \* RAIIResource objects of a try block, the heap and the output
    res, scopeStack, heap, nextBuf, epc, thrown, elog, nResOps,
    \* a TextFileHandler in a block: its std::fstream, the stream as it was
    \* before the last call, the last call, and where the block is
    file, filePrev, fileOp, hpc, hThrown,
    \* the two BankAccount objects: balances now, before the last transfer
    \* and at the start, and the last call of transfer with its result
    balance, balancePrev, balance0, lastTransfer, nTransfers,
    \* the caller's int variables, as they were before the last call and at
    \* the start, the calls made and the values printed after each
    mem, memPrev, mem0, passCalls, observed,
    \* Animal and Dog objects and the lines their constructors and
    \* destructors print
    animals, ilog,
    \* the last macro invocation: its expansion and its value
    macroUse, expansion, macroValue,
    \* ProducerConsumer pc and the producer and consumer threads of
    \* demonstrateConditionVariables
    buffer, finished, bufferMutex, qpc, blockedOn, pitem, consumed, sizeAtPush,
    \* unsafeCounter and the threads of demonstrateRaceConditions
    unsafeCounter, rpc, rtmp, riter,
    \* main: the demonstration it is in, where it is in it, the std::thread
    \* objects of that demonstration and the threads they started
    mainDemo, mainPc, threadObjs, threadRun

mtVars == <<count, mtx, tpc, top, tmp, ncalls, initial, ninc, ndec, sumadd>>
staticVars == <<staticCount, nStatic, nRegular, retStatic, retRegular>>
excVars == <<res, scopeStack, heap, nextBuf, epc, thrown, elog, nResOps>>
fileVars == <<file, filePrev, fileOp, hpc, hThrown>>
bankVars == <<balance, balancePrev, balance0, lastTransfer, nTransfers>>
paramVars == <<mem, memPrev, mem0, passCalls, observed>>
inhVars == <<animals, ilog>>
macroVars == <<macroUse, expansion, macroValue>>
pcVars == <<buffer, finished, bufferMutex, qpc, blockedOn, pitem, consumed, sizeAtPush>>
raceVars == <<unsafeCounter, rpc, rtmp, riter>>
mainVars == <<mainDemo, mainPc, threadObjs, threadRun>>
vars == <<prog, mtVars, staticVars, excVars, fileVars, bankVars, paramVars, inhVars, macroVars, pcVars,
          raceVars, mainVars>>

\* =====================================================================
\* multithreading: ThreadSafeCounter
\* =====================================================================
Threads == 1..NumThreads
NoThread == 0
InitialValues == {0, 7}
AddArgs == {-2, 3}
NoOp == [kind |-> "none", arg |-> 0]
CounterOps == {[kind |-> "increment", arg |-> 0], [kind |-> "decrement", arg |-> 0]}
                \cup {[kind |-> "add", arg |-> v] : v \in AddArgs}

\* ThreadSafeCounter::ThreadSafeCounter(int initial) : count(initial)
MtInit(c) ==
    /\ count = c
    /\ initial = c
    /\ mtx = NoThread
    /\ tpc = [t \in Threads |-> "idle"]
    /\ top = [t \in Threads |-> NoOp]
    /\ tmp = [t \in Threads |-> 0]
    /\ ncalls = 0
    /\ ninc = 0
    /\ ndec = 0
    /\ sumadd = 0

\* A thread enters increment(), decrement() or add(v).
Call(t, op) ==
    /\ prog = "mt"
    /\ tpc[t] = "idle"
    /\ ncalls < MaxCalls
    /\ tpc' = [tpc EXCEPT ![t] = "lock"]
    /\ top' = [top EXCEPT ![t] = op]
    /\ ncalls' = ncalls + 1
    /\ ninc' = IF op.kind = "increment" THEN ninc + 1 ELSE ninc
    /\ ndec' = IF op.kind = "decrement" THEN ndec + 1 ELSE ndec
    /\ sumadd' = IF op.kind = "add" THEN sumadd + op.arg ELSE sumadd
    /\ UNCHANGED <<count, mtx, tmp, initial>>

\* a faulty variant: a lock_guard that never waits for the mutex
CanAcquireNoWait(t) == TRUE

\* std::lock_guard<std::mutex> lock(mtx) returns only when no other
\* thread holds mtx.
CanAcquire(t) == mtx = NoThread

LockGuard(t) ==
    /\ prog = "mt"
    /\ tpc[t] = "lock"
    /\ CanAcquire(t)
    /\ mtx' = t
    /\ tpc' = [tpc EXCEPT ![t] = "load"]
    /\ UNCHANGED <<count, top, tmp, ncalls, initial, ninc, ndec, sumadd>>

\* ++count, --count and count += value read count ...
Load(t) ==
    /\ prog = "mt"
    /\ tpc[t] = "load"
    /\ tmp' = [tmp EXCEPT ![t] = count]
    /\ tpc' = [tpc EXCEPT ![t] = "store"]
    /\ UNCHANGED <<count, mtx, top, ncalls, initial, ninc, ndec, sumadd>>

Delta(op) ==
    CASE op.kind = "increment" -> 1
      [] op.kind = "decrement" -> -1
      [] op.kind = "add" -> op.arg
      [] OTHER -> 0

\* ... and write the new value back.
Store(t) ==
    /\ prog = "mt"
    /\ tpc[t] = "store"
    /\ count' = tmp[t] + Delta(top[t])
    /\ tpc' = [tpc EXCEPT ![t] = "unlock"]
    /\ UNCHANGED <<mtx, top, tmp, ncalls, initial, ninc, ndec, sumadd>>

\* ~lock_guard at the end of the member function; the call returns.
Unlock(t) ==
    /\ prog = "mt"
    /\ tpc[t] = "unlock"
    /\ mtx' = NoThread
    /\ tpc' = [tpc EXCEPT ![t] = "idle"]
    /\ top' = [top EXCEPT ![t] = NoOp]
    /\ tmp' = [tmp EXCEPT ![t] = 0]
    /\ UNCHANGED <<count, ncalls, initial, ninc, ndec, sumadd>>

\* ThreadSafeCounter::getValue() called while no other call is running:
\* the mutex is free, so it locks, reads count and returns it.
getValue == count

AllReturned == \A t \in Threads : tpc[t] = "idle"

\* =====================================================================
\* 08_static_keyword.cpp: regularCounter / staticCounter
\* =====================================================================
MaxCounterCalls == 6

StaticInit ==
    /\ staticCount = 0
    /\ nStatic = 0
    /\ nRegular = 0
    /\ retStatic = 0
    /\ retRegular = 0

\* int regularCounter() { int count = 0; return ++count; }
regularCounter ==
    LET local == 0 IN local + 1

\* a faulty variant: the static local is reset on every call
staticCounterReset(c) == 0 + 1

\* int staticCounter() { static int count = 0; return ++count; }
\* c is the value the static local holds when the call starts.
staticCounter(c) == c + 1

CallRegularCounter ==
    /\ prog = "static"
    /\ nRegular < MaxCounterCalls
    /\ retRegular' = regularCounter
    /\ nRegular' = nRegular + 1
    /\ UNCHANGED <<staticCount, nStatic, retStatic>>

CallStaticCounter ==
    /\ prog = "static"
    /\ nStatic < MaxCounterCalls
    /\ staticCount' = staticCounter(staticCount)
    /\ retStatic' = staticCount'
    /\ nStatic' = nStatic + 1
    /\ UNCHANGED <<nRegular, retRegular>>

\* =====================================================================
\* 16_exception_handling.cpp: RAIIResource in a try block
\* =====================================================================
MaxObjects == 2
MaxBufs == 2
MaxResOps == 3

ObjIds == 1..MaxObjects
BufIds == 1..MaxBufs
Null == 0
NoResource == [state |-> "none", data |-> Null, acquired |-> FALSE]

ExcInit ==
    /\ res = [i \in ObjIds |-> NoResource]
    /\ scopeStack = <<>>
    /\ heap = [b \in BufIds |-> [allocs |-> 0, frees |-> 0]]
    /\ nextBuf = 1
    /\ epc = "try"
    /\ thrown = FALSE
    /\ elog = <<>>
    /\ nResOps = 0

Event(e, i) == [ev |-> e, obj |-> i]

\* data = new int[100]
NewArray(h, b) == [h EXCEPT ![b].allocs = @ + 1]

\* delete[] data; deleting a null pointer does nothing
DeleteArray(h, p) == IF p = Null THEN h ELSE [h EXCEPT ![p].frees = @ + 1]

\* RAIIResource::RAIIResource(name) : data(nullptr), acquired(false)
Constructed == [state |-> "alive", data |-> Null, acquired |-> FALSE]

\* void RAIIResource::acquire(): the result of a call that finds buffer b
\* to allocate
acquire(i, r, h, b) ==
    IF ~r.acquired
    THEN [r |-> [r EXCEPT !.data = b, !.acquired = TRUE],
          h |-> NewArray(h, b), used |-> 1,
          out |-> <<Event("acquired", i)>>]
    ELSE [r |-> r, h |-> h, used |-> 0, out |-> <<>>]

\* a faulty variant: release() that forgets to clear the flag and the pointer
releaseKeepsFlag(i, r, h) ==
    IF r.acquired
    THEN [r |-> r, h |-> DeleteArray(h, r.data), out |-> <<Event("released", i)>>]
    ELSE [r |-> r, h |-> h, out |-> <<>>]

\* void RAIIResource::release()
release(i, r, h) ==
    IF r.acquired
    THEN [r |-> [r EXCEPT !.data = Null, !.acquired = FALSE],
          h |-> DeleteArray(h, r.data),
          out |-> <<Event("released", i)>>]
    ELSE [r |-> r, h |-> h, out |-> <<>>]

\* void RAIIResource::doWork()
doWork(i, r, h, b) ==
    LET a == IF ~r.acquired THEN acquire(i, r, h, b)
             ELSE [r |-> r, h |-> h, used |-> 0, out |-> <<>>]
    IN  [a EXCEPT !.out = @ \o <<Event("work", i)>>]

\* RAIIResource::~RAIIResource()
Destructor(i, r, h) ==
    LET a == IF r.acquired THEN release(i, r, h)
             ELSE [r |-> r, h |-> h, out |-> <<>>]
    IN  [r |-> [a.r EXCEPT !.state = "destroyed"],
         h |-> a.h,
         out |-> a.out \o <<Event("destroyed", i)>>]

InTry(i) == epc = "try" /\ res[i].state = "alive" /\ nResOps < MaxResOps

\* new int[100] throws std::bad_alloc when no memory is left
NeedsAlloc(i) == ~res[i].acquired
HeapFull == nextBuf > MaxBufs

\* RAIIResource resourceN("ResourceN"); inside the try block
Construct ==
    /\ prog = "exc"
    /\ epc = "try"
    /\ Len(scopeStack) < MaxObjects
    /\ LET i == Len(scopeStack) + 1 IN
        /\ res' = [res EXCEPT ![i] = Constructed]
        /\ scopeStack' = Append(scopeStack, i)
        /\ elog' = Append(elog, Event("created", i))
    /\ UNCHANGED <<heap, nextBuf, epc, thrown, nResOps>>

\* an exception leaves the try block: stack unwinding starts
RaiseFrom ==
    /\ epc' = "unwind"
    /\ thrown' = TRUE

Acquire(i, ok) ==
    /\ prog = "exc"
    /\ InTry(i)
    /\ nResOps' = nResOps + 1
    /\ IF NeedsAlloc(i) /\ (~ok \/ HeapFull)
       THEN /\ RaiseFrom
            /\ UNCHANGED <<res, scopeStack, heap, nextBuf, elog>>
       ELSE LET a == acquire(i, res[i], heap, IF HeapFull THEN Null ELSE nextBuf) IN
            /\ res' = [res EXCEPT ![i] = a.r]
            /\ heap' = a.h
            /\ nextBuf' = nextBuf + a.used
            /\ elog' = elog \o a.out
            /\ UNCHANGED <<scopeStack, epc, thrown>>

Release(i) ==
    /\ prog = "exc"
    /\ InTry(i)
    /\ nResOps' = nResOps + 1
    /\ LET a == release(i, res[i], heap) IN
        /\ res' = [res EXCEPT ![i] = a.r]
        /\ heap' = a.h
        /\ elog' = elog \o a.out
    /\ UNCHANGED <<scopeStack, nextBuf, epc, thrown>>

DoWork(i, ok) ==
    /\ prog = "exc"
    /\ InTry(i)
    /\ nResOps' = nResOps + 1
    /\ IF NeedsAlloc(i) /\ (~ok \/ HeapFull)
       THEN /\ RaiseFrom
            /\ UNCHANGED <<res, scopeStack, heap, nextBuf, elog>>
       ELSE LET a == doWork(i, res[i], heap, IF HeapFull THEN Null ELSE nextBuf) IN
            /\ res' = [res EXCEPT ![i] = a.r]
            /\ heap' = a.h
            /\ nextBuf' = nextBuf + a.used
            /\ elog' = elog \o a.out
            /\ UNCHANGED <<scopeStack, epc, thrown>>

\* throw std::runtime_error(...) inside the try block
Throw ==
    /\ prog = "exc"
    /\ epc = "try"
    /\ RaiseFrom
    /\ UNCHANGED <<res, scopeStack, heap, nextBuf, elog, nResOps>>

\* the closing brace of the try block is reached without a throw
ScopeExit ==
    /\ prog = "exc"
    /\ epc = "try"
    /\ epc' = "unwind"
    /\ UNCHANGED <<res, scopeStack, heap, nextBuf, thrown, elog, nResOps>>

\* a faulty variant: automatic objects destroyed in order of construction
OldestObject(stack) == 1

\* position in the block's objects of the one destroyed next: the one
\* constructed last
NextDestroyed(stack) == Len(stack)

Remove(stack, k) == [j \in 1..(Len(stack) - 1) |-> IF j < k THEN stack[j] ELSE stack[j + 1]]

\* leaving the block destroys its automatic objects one by one
Unwind ==
    /\ prog = "exc"
    /\ epc = "unwind"
    /\ scopeStack # <<>>
    /\ LET k == NextDestroyed(scopeStack)
           i == scopeStack[k]
           a == Destructor(i, res[i], heap) IN
        /\ res' = [res EXCEPT ![i] = a.r]
        /\ heap' = a.h
        /\ elog' = elog \o a.out
        /\ scopeStack' = Remove(scopeStack, k)
    /\ UNCHANGED <<nextBuf, epc, thrown, nResOps>>

\* catch (const std::exception& e) { std::cout << ... }
Catch ==
    /\ prog = "exc"
    /\ epc = "unwind"
    /\ scopeStack = <<>>
    /\ thrown
    /\ elog' = Append(elog, Event("caught", 0))
    /\ epc' = "done"
    /\ UNCHANGED <<res, scopeStack, heap, nextBuf, thrown, nResOps>>

\* the statement after the try block, when nothing was thrown
AfterTry ==
    /\ prog = "exc"
    /\ epc = "unwind"
    /\ scopeStack = <<>>
    /\ ~thrown
    /\ epc' = "done"
    /\ UNCHANGED <<res, scopeStack, heap, nextBuf, thrown, elog, nResOps>>

\* =====================================================================
\* 25_file_io.cpp: TextFileHandler
\* =====================================================================
\* std::fstream file: whether a file is open, the mode it was opened in,
\* fail() (failbit or badbit) and eof()
ClosedStream == [open |-> FALSE, mode |-> "none", fail |-> FALSE, eof |-> FALSE]
OpenModes == {"in", "out", "app"}

\* TextFileHandler::TextFileHandler(fname) : filename(fname); file is
\* default-constructed
FileInit ==
    /\ file = ClosedStream
    /\ filePrev = ClosedStream
    /\ fileOp = "none"
    /\ hpc = "block"
    /\ hThrown = FALSE

\* std::fstream::open: fails (failbit) on a stream that is already open or
\* when the operating system refuses; clears the state on success
fstream_open(f, mode, ok) ==
    IF f.open \/ ~ok
    THEN [f EXCEPT !.fail = TRUE]
    ELSE [open |-> TRUE, mode |-> mode, fail |-> FALSE, eof |-> FALSE]

\* std::fstream::close: the file is closed afterwards; failbit when no file
\* was open or the operating system reports an error
fstream_close(f, ok) ==
    IF f.open
    THEN [f EXCEPT !.open = FALSE, !.mode = "none", !.fail = f.fail \/ ~ok]
    ELSE [f EXCEPT !.fail = TRUE]

\* file << data: nothing is written unless the stream is good and was
\* opened for output
fstream_write(f, ok) ==
    IF f.fail \/ f.eof \/ ~f.open \/ f.mode = "in" \/ ~ok
    THEN [f EXCEPT !.fail = TRUE]
    ELSE f

\* file >> result, std::getline(file, line): hit says whether characters
\* were extracted, atEnd whether the end of the file was met
fstream_read(f, hit, atEnd) ==
    IF f.fail \/ f.eof
    THEN [f EXCEPT !.fail = TRUE]
    ELSE IF ~f.open \/ f.mode # "in"
    THEN [f EXCEPT !.fail = TRUE, !.eof = TRUE]
    ELSE [f EXCEPT !.fail = ~hit, !.eof = atEnd \/ ~hit]

\* file.seekg: clears eofbit, then fails on a failed or closed stream
fstream_seekg(f, ok) ==
    IF f.fail \/ ~f.open \/ ~ok
    THEN [f EXCEPT !.eof = FALSE, !.fail = TRUE]
    ELSE [f EXCEPT !.eof = FALSE]

\* a faulty variant: close() without the is_open() test
closeUnguarded(f, ok) == fstream_close(f, ok)

\* void TextFileHandler::close()
close(f, ok) == IF f.open THEN fstream_close(f, ok) ELSE f

\* TextFileHandler::~TextFileHandler(), the body
DtorBody(f, ok) == IF f.open THEN fstream_close(f, ok) ELSE f

\* std::fstream::~fstream closes the file if one is still open
fstream_dtor(f) == [f EXCEPT !.open = FALSE, !.mode = "none"]

\* openForReading / openForWriting / openForAppending
openFor(f, mode, ok) == fstream_open(f, mode, ok)

\* writeString / writeLine
writeString(f, ok) == IF f.open THEN fstream_write(f, ok) ELSE f

\* readString / readLine
readString(f, hit, atEnd) == IF f.open THEN fstream_read(f, hit, atEnd) ELSE f

\* readAllLines: std::getline until it fails
readAllLines(f) ==
    IF f.fail \/ f.eof THEN [f EXCEPT !.fail = TRUE]
    ELSE [f EXCEPT !.fail = TRUE, !.eof = TRUE]

\* seekToBeginning / seekToEnd / seekTo
seekTo(f, ok) == fstream_seekg(f, ok)

\* clearError
clearError(f) == [f EXCEPT !.fail = FALSE, !.eof = FALSE]

FileCall(op, f) ==
    /\ prog = "file"
    /\ hpc = "block"
    /\ filePrev' = file
    /\ fileOp' = op
    /\ file' = f
    /\ UNCHANGED <<hpc, hThrown>>

OpenFile(mode, ok) == FileCall("open", openFor(file, mode, ok))
WriteFile(ok) == FileCall("write", writeString(file, ok))
ReadFile(hit, atEnd) == FileCall("read", readString(file, hit, atEnd))
ReadAll == FileCall("readAll", readAllLines(file))
SeekFile(ok) == FileCall("seek", seekTo(file, ok))
ClearError == FileCall("clear", clearError(file))
CloseFile(ok) == FileCall("close", close(file, ok))

\* throw std::runtime_error("Simulated error") with the handler in scope
ThrowInBlock ==
    /\ prog = "file"
    /\ hpc = "block"
    /\ hpc' = "dtor"
    /\ hThrown' = TRUE
    /\ UNCHANGED <<file, filePrev, fileOp>>

\* the handler goes out of scope at the closing brace
LeaveBlock ==
    /\ prog = "file"
    /\ hpc = "block"
    /\ hpc' = "dtor"
    /\ UNCHANGED <<file, filePrev, fileOp, hThrown>>

\* ~TextFileHandler runs ...
RunDtorBody(ok) ==
    /\ prog = "file"
    /\ hpc = "dtor"
    /\ filePrev' = file
    /\ fileOp' = "dtor"
    /\ file' = DtorBody(file, ok)
    /\ hpc' = "members"
    /\ UNCHANGED hThrown

\* ... and then the member file is destroyed
DestroyMembers ==
    /\ prog = "file"
    /\ hpc = "members"
    /\ filePrev' = file
    /\ fileOp' = "~fstream"
    /\ file' = fstream_dtor(file)
    /\ hpc' = "destroyed"
    /\ UNCHANGED hThrown

\* =====================================================================
\* 13_friend_functions.cpp: BankAccount, transfer, auditAccounts
\* =====================================================================
\* double balance: a binary floating-point number.  The model keeps the
\* format's rounding (round to nearest, ties to even) with a significand of
\* MantissaBits bits; values are counted in units of the smallest amount
\* used, so every value is an integer and only large values are rounded.
MantissaBits == 3
MaxTransfers == 3

Pow2(n) == IF n <= 0 THEN 1 ELSE 2 ^ n
Abs(x) == IF x < 0 THEN -x ELSE x
BitLen(m) == CHOOSE k \in 0..30 : m < Pow2(k) /\ (k = 0 \/ m >= Pow2(k - 1))

\* the nearest representable value, ties to the even significand
RoundDouble(x) ==
    LET m == Abs(x)
        q == Pow2(BitLen(m) - MantissaBits)
        lo == (m \div q) * q
        r == m - lo
        up == lo + q
        n == IF 2 * r < q THEN lo
             ELSE IF 2 * r > q THEN up
             ELSE IF (lo \div q) % 2 = 0 THEN lo ELSE up
    IN  IF x < 0 THEN -n ELSE n

\* a -= b and a += b on doubles
DoubleSub(a, b) == RoundDouble(a - b)
DoubleAdd(a, b) == RoundDouble(a + b)

Accounts == {1, 2}
InitialBalances == {5, 8, 10}
Amounts == {-1, 0, 1, 3, 6}
NoTransfer == [from |-> 0, to |-> 0, amount |-> 0, ret |-> FALSE]

\* BankAccount account1(...), account2(...)
BankInit(b1, b2) ==
    /\ balance = [a \in Accounts |-> IF a = 1 THEN b1 ELSE b2]
    /\ balancePrev = balance
    /\ balance0 = balance
    /\ lastTransfer = NoTransfer
    /\ nTransfers = 0

\* bool transfer(BankAccount& from, BankAccount& to, double amount):
\* the balances after the call and the value returned.  from and to may
\* name the same account, so the second update reads the first one's result.
transfer(bal, from, to, amount) ==
    IF amount > 0 /\ bal[from] >= amount
    THEN LET b1 == [bal EXCEPT ![from] = DoubleSub(bal[from], amount)]
             b2 == [b1 EXCEPT ![to] = DoubleAdd(b1[to], amount)]
         IN  [bal |-> b2, ret |-> TRUE]
    ELSE [bal |-> bal, ret |-> FALSE]

\* auditAccounts prints acc1.balance + acc2.balance as "Total funds"
TotalFunds(bal) == DoubleAdd(bal[1], bal[2])

Transfer(from, to, amount) ==
    /\ prog = "bank"
    /\ nTransfers < MaxTransfers
    /\ LET t == transfer(balance, from, to, amount) IN
        /\ balance' = t.bal
        /\ lastTransfer' = [from |-> from, to |-> to, amount |-> amount, ret |-> t.ret]
    /\ balancePrev' = balance
    /\ nTransfers' = nTransfers + 1
    /\ UNCHANGED balance0

\* =====================================================================
\* 22_lambda_functions.cpp: passByValue / passByReference / passByPointer
\* =====================================================================
NumVars == 2
MaxPassCalls == 3

Addrs == 1..NumVars
nullptr == 0
ValueAddr == 1
StartValues == {10, 42}

ParamInit(v) ==
    /\ mem = [a \in Addrs |-> v]
    /\ memPrev = mem
    /\ mem0 = mem
    /\ passCalls = <<>>
    /\ observed = <<v>>

PassCall(k, a) == [kind |-> k, arg |-> a]

\* a faulty variant: the parameter aliases the caller's variable
passByValueAliased(m, a) == [m EXCEPT ![a] = 999]

\* void passByValue(int value): the parameter is a copy of the variable at
\* a; the assignment changes the copy, which dies on return
passByValue(m, a) ==
    LET value == m[a]
        assigned == 999
    IN  m

\* void passByReference(int& reference)
passByReference(m, a) == [m EXCEPT ![a] = 888]

\* void passByPointer(int* pointer)
passByPointer(m, ptr) == IF ptr # nullptr THEN [m EXCEPT ![ptr] = 777] ELSE m

\* a call, then the caller prints value
AfterCall(k, a, m) ==
    /\ prog = "param"
    /\ Len(passCalls) < MaxPassCalls
    /\ memPrev' = mem
    /\ mem' = m
    /\ passCalls' = Append(passCalls, PassCall(k, a))
    /\ observed' = Append(observed, m[ValueAddr])
    /\ UNCHANGED mem0

CallPassByValue(a) == AfterCall("value", a, passByValue(mem, a))
CallPassByReference(a) == AfterCall("reference", a, passByReference(mem, a))
CallPassByPointer(ptr) == AfterCall("pointer", ptr, passByPointer(mem, ptr))

\* demonstrateParameterPassing: passByValue(value); passByReference(value);
\* passByPointer(&value);
DemoCalls ==
    <<PassCall("value", ValueAddr), PassCall("reference", ValueAddr),
      PassCall("pointer", ValueAddr)>>

\* =====================================================================
\* 10_inheritance.cpp: Animal and Dog
\* =====================================================================
MaxAnimals == 2

AnimalIds == 1..MaxAnimals
Classes == {"Animal", "Dog"}
Line(what, i) == [what |-> what, obj |-> i]

InhInit ==
    /\ animals = [i \in AnimalIds |-> "none"]
    /\ ilog = <<>>

\* Animal::Animal(name, age) : name(name), age(age) { print }
AnimalCtor(i) == <<Line("Animal constructor", i)>>

\* Animal::~Animal() { print }
AnimalDtor(i) == <<Line("Animal destructor", i)>>

\* a faulty variant: the base class is initialised after the body has run
DogCtorBodyFirst(i) == <<Line("Dog constructor", i)>> \o AnimalCtor(i)

\* Dog::Dog(name, age, breed) : Animal(name, age), breed(breed) { print }
DogCtor(i) == AnimalCtor(i) \o <<Line("Dog constructor", i)>>

\* Dog::~Dog() { print }, after which the base class is destroyed
DogDtor(i) == <<Line("Dog destructor", i)>> \o AnimalDtor(i)

ConstructAnimal(i, class) ==
    /\ prog = "inh"
    /\ animals[i] = "none"
    /\ animals' = [animals EXCEPT ![i] = class]
    /\ ilog' = ilog \o (IF class = "Dog" THEN DogCtor(i) ELSE AnimalCtor(i))

DestroyAnimal(i) ==
    /\ prog = "inh"
    /\ animals[i] \in Classes
    /\ animals' = [animals EXCEPT ![i] = "destroyed"]
    /\ ilog' = ilog \o (IF animals[i] = "Dog" THEN DogDtor(i) ELSE AnimalDtor(i))

\* =====================================================================
\* 24_preprocessor.cpp: SQUARE and BAD_SQUARE
\* =====================================================================
MaxMacroInt == 3

MacroInts == (-MaxMacroInt)..MaxMacroInt
Tok(t) == [t |-> t, v |-> 0]
\* an integer literal (a negative one stands for the literal under a unary
\* minus, which binds tighter than * and +)
Num(n) == [t |-> "num", v |-> n]

\* the argument text  a + b
SumArg(a, b) == <<Num(a), Tok("+"), Num(b)>>

\* a faulty variant: SQUARE defined without parentheses
SQUARE_unparenthesised == <<Tok("x"), Tok("*"), Tok("x")>>

\* #define SQUARE(x) ((x) * (x))
SQUARE == <<Tok("("), Tok("("), Tok("x"), Tok(")"), Tok("*"),
            Tok("("), Tok("x"), Tok(")"), Tok(")")>>

\* #define BAD_SQUARE(x) x * x
BAD_SQUARE == <<Tok("x"), Tok("*"), Tok("x")>>

\* macro expansion: every occurrence of the parameter in the replacement
\* list is replaced by the tokens of the argument
RECURSIVE Expand(_, _)
Expand(body, arg) ==
    IF body = <<>> THEN <<>>
    ELSE (IF Head(body).t = "x" THEN arg ELSE <<Head(body)>>) \o Expand(Tail(body), arg)

\* the value of an expression of integer literals, +, * and parentheses:
\* * binds tighter than +, both associate to the left
RECURSIVE ParseExpr(_, _), ParseTerm(_, _), ParseFactor(_, _), TermRest(_, _, _), ExprRest(_, _, _)
ParseFactor(ts, p) ==
    IF ts[p].t = "num" THEN [val |-> ts[p].v, pos |-> p + 1]
    ELSE LET e == ParseExpr(ts, p + 1) IN [val |-> e.val, pos |-> e.pos + 1]
TermRest(ts, acc, p) ==
    IF p <= Len(ts) /\ ts[p].t = "*"
    THEN LET f == ParseFactor(ts, p + 1) IN TermRest(ts, acc * f.val, f.pos)
    ELSE [val |-> acc, pos |-> p]
ParseTerm(ts, p) ==
    LET f == ParseFactor(ts, p) IN TermRest(ts, f.val, f.pos)
ExprRest(ts, acc, p) ==
    IF p <= Len(ts) /\ ts[p].t = "+"
    THEN LET f == ParseTerm(ts, p + 1) IN ExprRest(ts, acc + f.val, f.pos)
    ELSE [val |-> acc, pos |-> p]
ParseExpr(ts, p) ==
    LET f == ParseTerm(ts, p) IN ExprRest(ts, f.val, f.pos)
Eval(ts) == ParseExpr(ts, 1).val

NoMacro == [name |-> "none", a |-> 0, b |-> 0]

MacroInit ==
    /\ macroUse = NoMacro
    /\ expansion = <<>>
    /\ macroValue = 0

UseMacro(name, body, a, b) ==
    /\ prog = "macro"
    /\ macroUse' = [name |-> name, a |-> a, b |-> b]
    /\ expansion' = Expand(body, SumArg(a, b))
    /\ macroValue' = Eval(expansion')

\* int result3 = SQUARE(a + b);
UseSquare(a, b) == UseMacro("SQUARE", SQUARE, a, b)

\* int result2 = BAD_SQUARE(a + b);
UseBadSquare(a, b) == UseMacro("BAD_SQUARE", BAD_SQUARE, a, b)

\* =====================================================================
\* multithreading: ProducerConsumer and demonstrateConditionVariables
\* =====================================================================
\* ProducerConsumer pc(5); for (int i = 0; i < 10; ++i) pc.produce(i);
DemoMaxSize == 5
DemoItems == 10

QThreads == {"producer", "consumer"}
NoOwner == "none"

\* ProducerConsumer::ProducerConsumer(size_t size): an empty buffer
PcInit ==
    /\ buffer = <<>>
    /\ finished = FALSE
    /\ bufferMutex = NoOwner
    /\ qpc = [t \in QThreads |-> "idle"]
    /\ blockedOn = [t \in QThreads |-> "none"]
    /\ pitem = 0
    /\ consumed = <<>>
    /\ sizeAtPush = 0

\* a faulty variant: produce() that never waits for room
HasRoomAlways(buf) == TRUE

\* the predicate produce() waits for on notFull
HasRoom(buf) == Len(buf) < DemoMaxSize

\* the predicate consume() waits for on notEmpty
CanConsume(buf, fin) == buf # <<>> \/ fin

\* notify_one / notify_all on a condition variable: the threads blocked
\* on it become runnable again
Notify(b, cv) == [t \in QThreads |-> IF b[t] = cv THEN "none" ELSE b[t]]

\* the producer lambda calls pc.produce(i), or pc.setFinished() after the loop
ProducerCall ==
    /\ prog = "pc"
    /\ qpc["producer"] = "idle"
    /\ qpc' = [qpc EXCEPT !["producer"] =
                  IF pitem < DemoItems THEN "lockProduce" ELSE "lockFinish"]
    /\ UNCHANGED <<buffer, finished, bufferMutex, blockedOn, pitem, consumed, sizeAtPush>>

\* the consumer lambda calls pc.consume(item)
ConsumerCall ==
    /\ prog = "pc"
    /\ qpc["consumer"] = "idle"
    /\ qpc' = [qpc EXCEPT !["consumer"] = "lockConsume"]
    /\ UNCHANGED <<buffer, finished, bufferMutex, blockedOn, pitem, consumed, sizeAtPush>>

\* std::unique_lock<std::mutex> lock(bufferMutex), at the start of a call or
\* when a wait returns
QLock(t) ==
    /\ prog = "pc"
    /\ qpc[t] \in {"lockProduce", "lockFinish", "lockConsume"}
    /\ blockedOn[t] = "none"
    /\ bufferMutex = NoOwner
    /\ bufferMutex' = t
    /\ qpc' = [qpc EXCEPT ![t] = CASE qpc[t] = "lockProduce" -> "produce"
                                   [] qpc[t] = "lockFinish" -> "finish"
                                   [] OTHER -> "consume"]
    /\ UNCHANGED <<buffer, finished, blockedOn, pitem, consumed, sizeAtPush>>

\* void ProducerConsumer::produce(int item), holding the lock: wait on
\* notFull while the buffer is full, else push, notify notEmpty and return
Produce ==
    /\ prog = "pc"
    /\ qpc["producer"] = "produce"
    /\ bufferMutex' = NoOwner
    /\ IF HasRoom(buffer)
       THEN /\ buffer' = Append(buffer, pitem)
            /\ sizeAtPush' = Len(buffer)
            /\ blockedOn' = Notify(blockedOn, "notEmpty")
            /\ pitem' = pitem + 1
            /\ qpc' = [qpc EXCEPT !["producer"] = "idle"]
       ELSE /\ blockedOn' = [blockedOn EXCEPT !["producer"] = "notFull"]
            /\ qpc' = [qpc EXCEPT !["producer"] = "lockProduce"]
            /\ UNCHANGED <<buffer, sizeAtPush, pitem>>
    /\ UNCHANGED <<finished, consumed>>

\* bool ProducerConsumer::consume(int& item), holding the lock: wait on
\* notEmpty while the buffer is empty and not finished; then return false
\* if the buffer is empty, else pop, notify notFull and return true
Consume ==
    /\ prog = "pc"
    /\ qpc["consumer"] = "consume"
    /\ bufferMutex' = NoOwner
    /\ IF ~CanConsume(buffer, finished)
       THEN /\ blockedOn' = [blockedOn EXCEPT !["consumer"] = "notEmpty"]
            /\ qpc' = [qpc EXCEPT !["consumer"] = "lockConsume"]
            /\ UNCHANGED <<buffer, consumed>>
       ELSE IF buffer = <<>>
       THEN /\ qpc' = [qpc EXCEPT !["consumer"] = "done"]
            /\ UNCHANGED <<buffer, blockedOn, consumed>>
       ELSE /\ consumed' = Append(consumed, Head(buffer))
            /\ buffer' = Tail(buffer)
            /\ blockedOn' = Notify(blockedOn, "notFull")
            /\ qpc' = [qpc EXCEPT !["consumer"] = "idle"]
    /\ UNCHANGED <<finished, pitem, sizeAtPush>>

\* void ProducerConsumer::setFinished(), holding the lock
SetFinished ==
    /\ prog = "pc"
    /\ qpc["producer"] = "finish"
    /\ bufferMutex' = NoOwner
    /\ finished' = TRUE
    /\ blockedOn' = Notify(blockedOn, "notEmpty")
    /\ qpc' = [qpc EXCEPT !["producer"] = "done"]
    /\ UNCHANGED <<buffer, pitem, consumed, sizeAtPush>>

\* a wait on a condition variable may return without a notification
SpuriousWakeup(t) ==
    /\ prog = "pc"
    /\ blockedOn[t] # "none"
    /\ blockedOn' = [blockedOn EXCEPT ![t] = "none"]
    /\ UNCHANGED <<buffer, finished, bufferMutex, qpc, pitem, consumed, sizeAtPush>>

\* =====================================================================
\* multithreading: demonstrateRaceConditions
\* =====================================================================
RaceThreads == 2
RaceIterations == 2

Racers == 1..RaceThreads

\* int unsafeCounter = 0; and the threads the loop starts
RaceInit ==
    /\ unsafeCounter = 0
    /\ rpc = [t \in Racers |-> "load"]
    /\ rtmp = [t \in Racers |-> 0]
    /\ riter = [t \in Racers |-> 0]

\* a faulty variant: an increment by two
PreIncrementTwice(v) == v + 2

\* the value ++unsafeCounter writes, from the value it read
PreIncrement(v) == v + 1

\* ++unsafeCounter without synchronisation: the thread reads the counter ...
RaceLoad(t) ==
    /\ prog = "race"
    /\ rpc[t] = "load"
    /\ rtmp' = [rtmp EXCEPT ![t] = unsafeCounter]
    /\ rpc' = [rpc EXCEPT ![t] = "store"]
    /\ UNCHANGED <<unsafeCounter, riter>>

\* ... and later writes the incremented value; ++j, j < 1000
RaceStore(t) ==
    /\ prog = "race"
    /\ rpc[t] = "store"
    /\ unsafeCounter' = PreIncrement(rtmp[t])
    /\ riter' = [riter EXCEPT ![t] = @ + 1]
    /\ rpc' = [rpc EXCEPT ![t] = IF riter[t] + 1 < RaceIterations THEN "load" ELSE "done"]
    /\ UNCHANGED rtmp

RECURSIVE SumTo(_, _)
SumTo(f, n) == IF n = 0 THEN 0 ELSE f[n] + SumTo(f, n - 1)
\* the number of increments executed so far
Executed == SumTo(riter, RaceThreads)
RaceDone == \A t \in Racers : rpc[t] = "done"

\* =====================================================================
\* multithreading: main and the std::thread objects of the demonstrations
\* =====================================================================
\* the demonstrations in the order main calls them, and the number of
\* std::thread objects each one constructs
Demonstrations ==
    <<"demonstrateBasicThreads", "demonstrateMutexAndLocking",
      "demonstrateConditionVariables", "demonstrateAtomicOperations",
      "demonstrateRaceConditions", "demonstrateDeadlockPrevention",
      "demonstrateFuturesAndPromises", "demonstrateThreadPool">>
ThreadsOf == <<2, 5, 2, 10, 5, 0, 0, 0>>

MainInit ==
    /\ mainDemo = 1
    /\ mainPc = "call"
    /\ threadObjs = <<>>
    /\ threadRun = <<>>

\* main calls the next demonstration, which constructs its std::thread
\* objects; each starts a thread and is joinable
EnterDemonstration ==
    /\ prog = "main"
    /\ mainPc = "call"
    /\ mainDemo <= Len(Demonstrations)
    /\ threadObjs' = [k \in 1..ThreadsOf[mainDemo] |-> "joinable"]
    /\ threadRun' = [k \in 1..ThreadsOf[mainDemo] |-> "running"]
    /\ mainPc' = "body"
    /\ UNCHANGED mainDemo

\* a started thread runs its function to the end
ThreadFinishes(k) ==
    /\ prog = "main"
    /\ k \in 1..Len(threadRun)
    /\ threadRun[k] = "running"
    /\ mainPc # "terminated"
    /\ threadRun' = [threadRun EXCEPT ![k] = "finished"]
    /\ UNCHANGED <<mainDemo, mainPc, threadObjs>>

\* std::thread::~thread calls std::terminate if the thread is joinable
DestroyedSafely(objs) == \A k \in 1..Len(objs) : objs[k] # "joinable"

\* the closing brace of the demonstration: its locals are destroyed, the
\* std::thread objects among them
LeaveDemonstration ==
    /\ prog = "main"
    /\ mainPc = "body"
    /\ IF DestroyedSafely(threadObjs)
       THEN /\ mainPc' = IF mainDemo = Len(Demonstrations) THEN "returned" ELSE "call"
            /\ mainDemo' = mainDemo + 1
            /\ threadObjs' = <<>>
            /\ UNCHANGED threadRun
       ELSE /\ mainPc' = "terminated"
            /\ UNCHANGED <<mainDemo, threadObjs, threadRun>>

\* =====================================================================
\* the programs
\* =====================================================================
MtOff == MtInit(0)
BankOff == BankInit(0, 0)
ParamOff == ParamInit(0)

Init ==
    /\ prog \in {"mt", "exc", "file", "bank", "static", "param", "inh", "macro", "pc",
                 "race", "main"}
    /\ IF prog = "mt" THEN \E c \in InitialValues : MtInit(c) ELSE MtOff
    /\ StaticInit
    /\ ExcInit
    /\ FileInit
    /\ IF prog = "bank" THEN \E b1, b2 \in InitialBalances : BankInit(b1, b2) ELSE BankOff
    /\ IF prog = "param" THEN \E v \in StartValues : ParamInit(v) ELSE ParamOff
    /\ InhInit
    /\ MacroInit
    /\ PcInit
    /\ RaceInit
    /\ MainInit

\* a step of one program leaves the other programs' variables alone
OnlyMt ==
    UNCHANGED <<prog, staticVars, excVars, fileVars, bankVars, paramVars, inhVars,
                macroVars, pcVars, raceVars, mainVars>>
OnlyStatic ==
    UNCHANGED <<prog, mtVars, excVars, fileVars, bankVars, paramVars, inhVars,
                macroVars, pcVars, raceVars, mainVars>>
OnlyExc ==
    UNCHANGED <<prog, mtVars, staticVars, fileVars, bankVars, paramVars, inhVars,
                macroVars, pcVars, raceVars, mainVars>>
OnlyFile ==
    UNCHANGED <<prog, mtVars, staticVars, excVars, bankVars, paramVars, inhVars,
                macroVars, pcVars, raceVars, mainVars>>
OnlyBank ==
    UNCHANGED <<prog, mtVars, staticVars, excVars, fileVars, paramVars, inhVars,
                macroVars, pcVars, raceVars, mainVars>>
OnlyParam ==
    UNCHANGED <<prog, mtVars, staticVars, excVars, fileVars, bankVars, inhVars,
                macroVars, pcVars, raceVars, mainVars>>
OnlyInh ==
    UNCHANGED <<prog, mtVars, staticVars, excVars, fileVars, bankVars, paramVars,
                macroVars, pcVars, raceVars, mainVars>>
OnlyMacro ==
    UNCHANGED <<prog, mtVars, staticVars, excVars, fileVars, bankVars, paramVars,
                inhVars, pcVars, raceVars, mainVars>>
OnlyPc ==
    UNCHANGED <<prog, mtVars, staticVars, excVars, fileVars, bankVars, paramVars,
                inhVars, macroVars, raceVars, mainVars>>
OnlyRace ==
    UNCHANGED <<prog, mtVars, staticVars, excVars, fileVars, bankVars, paramVars,
                inhVars, macroVars, pcVars, mainVars>>
OnlyMain ==
    UNCHANGED <<prog, mtVars, staticVars, excVars, fileVars, bankVars, paramVars,
                inhVars, macroVars, pcVars, raceVars>>

Next ==
    \/ \E t \in Threads, op \in CounterOps : Call(t, op) /\ OnlyMt
    \/ \E t \in Threads : LockGuard(t) /\ OnlyMt
    \/ \E t \in Threads : Load(t) /\ OnlyMt
    \/ \E t \in Threads : Store(t) /\ OnlyMt
    \/ \E t \in Threads : Unlock(t) /\ OnlyMt
    \/ CallRegularCounter /\ OnlyStatic
    \/ CallStaticCounter /\ OnlyStatic
    \/ Construct /\ OnlyExc
    \/ \E i \in ObjIds, ok \in BOOLEAN : Acquire(i, ok) /\ OnlyExc
    \/ \E i \in ObjIds : Release(i) /\ OnlyExc
    \/ \E i \in ObjIds, ok \in BOOLEAN : DoWork(i, ok) /\ OnlyExc
    \/ Throw /\ OnlyExc
    \/ ScopeExit /\ OnlyExc
    \/ Unwind /\ OnlyExc
    \/ Catch /\ OnlyExc
    \/ AfterTry /\ OnlyExc
    \/ \E m \in OpenModes, ok \in BOOLEAN : OpenFile(m, ok) /\ OnlyFile
    \/ \E ok \in BOOLEAN : WriteFile(ok) /\ OnlyFile
    \/ \E hit, atEnd \in BOOLEAN : ReadFile(hit, atEnd) /\ OnlyFile
    \/ ReadAll /\ OnlyFile
    \/ \E ok \in BOOLEAN : SeekFile(ok) /\ OnlyFile
    \/ ClearError /\ OnlyFile
    \/ \E ok \in BOOLEAN : CloseFile(ok) /\ OnlyFile
    \/ ThrowInBlock /\ OnlyFile
    \/ LeaveBlock /\ OnlyFile
    \/ \E ok \in BOOLEAN : RunDtorBody(ok) /\ OnlyFile
    \/ DestroyMembers /\ OnlyFile
    \/ \E from, to \in Accounts, amount \in Amounts :
           Transfer(from, to, amount) /\ OnlyBank
    \/ \E a \in Addrs : CallPassByValue(a) /\ OnlyParam
    \/ \E a \in Addrs : CallPassByReference(a) /\ OnlyParam
    \/ \E ptr \in Addrs \cup {nullptr} : CallPassByPointer(ptr) /\ OnlyParam
    \/ \E i \in AnimalIds, class \in Classes : ConstructAnimal(i, class) /\ OnlyInh
    \/ \E i \in AnimalIds : DestroyAnimal(i) /\ OnlyInh
    \/ \E a, b \in MacroInts : UseSquare(a, b) /\ OnlyMacro
    \/ \E a, b \in MacroInts : UseBadSquare(a, b) /\ OnlyMacro
    \/ ProducerCall /\ OnlyPc
    \/ ConsumerCall /\ OnlyPc
    \/ \E t \in QThreads : QLock(t) /\ OnlyPc
    \/ Produce /\ OnlyPc
    \/ Consume /\ OnlyPc
    \/ SetFinished /\ OnlyPc
    \/ \E t \in QThreads : SpuriousWakeup(t) /\ OnlyPc
    \/ \E t \in Racers : RaceLoad(t) /\ OnlyRace
    \/ \E t \in Racers : RaceStore(t) /\ OnlyRace
    \/ EnterDemonstration /\ OnlyMain
    \/ \E k \in 1..Len(threadRun) : ThreadFinishes(k) /\ OnlyMain
    \/ LeaveDemonstration /\ OnlyMain

Spec == Init /\ [][Next]_vars

\* the run of the producer and consumer threads alone, scheduled fairly:
\* a runnable thread eventually runs, and a thread that can take the mutex
\* again and again eventually takes it
PcProgInit == prog = "pc" /\ Init

PcNext ==
    \/ ProducerCall /\ OnlyPc
    \/ ConsumerCall /\ OnlyPc
    \/ \E t \in QThreads : QLock(t) /\ OnlyPc
    \/ Produce /\ OnlyPc
    \/ Consume /\ OnlyPc
    \/ SetFinished /\ OnlyPc
    \/ \E t \in QThreads : SpuriousWakeup(t) /\ OnlyPc

PcFairness ==
    /\ WF_vars(ProducerCall /\ OnlyPc)
    /\ WF_vars(ConsumerCall /\ OnlyPc)
    /\ \A t \in QThreads : SF_vars(QLock(t) /\ OnlyPc)
    /\ WF_vars(Produce /\ OnlyPc)
    /\ WF_vars(Consume /\ OnlyPc)
    /\ WF_vars(SetFinished /\ OnlyPc)

PcSpec == PcProgInit /\ [][PcNext]_vars /\ PcFairness

\* C1: once every increment(), decrement() and add(v) call has returned,
\* getValue() is the initial value plus the number of increments minus the
\* number of decrements plus the sum of the add arguments.
C1_NoLostUpdate ==
    (prog = "mt" /\ AllReturned) => getValue = initial + ninc - ndec + sumadd

C1_Witness ==
    /\ prog = "mt" /\ AllReturned
    /\ ncalls = MaxCalls
    /\ ninc > 0 /\ ndec > 0 /\ sumadd # 0

\* C7: the n-th call of staticCounter() returns n, and every call of
\* regularCounter() returns 1.
C7_Counters ==
    /\ (prog = "static" /\ nStatic > 0) => retStatic = nStatic
    /\ (prog = "static" /\ nRegular > 0) => retRegular = 1

C7_Witness ==
    prog = "static" /\ nStatic = 5 /\ retStatic = 5 /\ nRegular = 5 /\ retRegular = 1
\* C2: no buffer allocated by acquire() is freed twice, and once every
\* RAIIResource of the block is destroyed (scope exit or unwinding) every
\* allocated buffer has been freed exactly once.
C2_FreedExactlyOnce ==
    prog = "exc" =>
        /\ \A b \in BufIds : heap[b].frees <= 1
        /\ epc = "done" => \A b \in BufIds : heap[b].allocs > 0 => heap[b].frees = 1

C2_Witness ==
    /\ prog = "exc" /\ epc = "done" /\ thrown
    /\ heap[1] = [allocs |-> 1, frees |-> 1]
    /\ heap[2] = [allocs |-> 1, frees |-> 1]
    /\ \E k \in 1..Len(elog) : elog[k].ev = "released" /\ k < Len(elog) - 2

Pos(e, i) == CHOOSE k \in 1..Len(elog) : elog[k] = Event(e, i)
Printed(e, i) == \E k \in 1..Len(elog) : elog[k] = Event(e, i)

\* C3: when the exception is thrown after Resource1 and Resource2 were
\* constructed, Resource2 is destroyed first, then Resource1, and only then
\* does the handler print.
C3_UnwindOrder ==
    (prog = "exc" /\ Printed("caught", 0) /\ Printed("created", 2)) =>
        /\ Printed("destroyed", 2) /\ Printed("destroyed", 1)
        /\ Pos("created", 1) < Pos("created", 2)
        /\ Pos("created", 2) < Pos("destroyed", 2)
        /\ Pos("destroyed", 2) < Pos("destroyed", 1)
        /\ Pos("destroyed", 1) < Pos("caught", 0)

C3_Witness ==
    /\ prog = "exc"
    /\ elog = <<Event("created", 1), Event("created", 2), Event("destroyed", 2),
                Event("destroyed", 1), Event("caught", 0)>>
\* C4: once the TextFileHandler is destroyed, by scope exit or by
\* unwinding, its file is closed; and close() on a handler whose file is not
\* open leaves the stream as it was.
C4_ClosedAfterDestruction ==
    prog = "file" =>
        /\ hpc = "destroyed" => ~file.open
        /\ (fileOp = "close" /\ ~filePrev.open) => file = filePrev

C4_Witness ==
    /\ prog = "file" /\ hpc = "destroyed" /\ hThrown
    /\ fileOp = "~fstream" /\ ~file.open /\ file.fail
\* C5: transfer never changes from.balance + to.balance, so the total
\* funds auditAccounts reports stay what they were at the start; a transfer
\* from an account to itself leaves its balance unchanged.
C5_TotalConserved ==
    prog = "bank" =>
        /\ balance[1] + balance[2] = balance0[1] + balance0[2]
        /\ TotalFunds(balance) = TotalFunds(balance0)
        /\ lastTransfer.from = lastTransfer.to => balance = balancePrev

\* C6: transfer returns true exactly when amount > 0 and from.balance >=
\* amount; then exactly amount is removed from from.balance and added to
\* to.balance (to the same balance when from and to are one account), and
\* otherwise neither balance changes.
C6_TransferEffect ==
    (prog = "bank" /\ nTransfers > 0) =>
        LET t == lastTransfer
            removed == [balancePrev EXCEPT ![t.from] = @ - t.amount]
            added == [removed EXCEPT ![t.to] = @ + t.amount]
        IN  /\ t.ret = (t.amount > 0 /\ balancePrev[t.from] >= t.amount)
            /\ t.ret => balance = added
            /\ ~t.ret => balance = balancePrev
LastPassCall == passCalls[Len(passCalls)]

\* C8: passByValue leaves the caller's variables unchanged, passByReference
\* sets the variable passed to 888 and nothing else, passByPointer sets the
\* pointee to 777 and nothing else and does nothing for nullptr; the
\* demonstration, starting from 10, prints 10, 10, 888, 777.
C8_ParameterPassing ==
    (prog = "param" /\ passCalls # <<>>) =>
        /\ LastPassCall.kind = "value" => mem = memPrev
        /\ LastPassCall.kind = "reference" =>
               mem = [memPrev EXCEPT ![LastPassCall.arg] = 888]
        /\ (LastPassCall.kind = "pointer" /\ LastPassCall.arg # nullptr) =>
               mem = [memPrev EXCEPT ![LastPassCall.arg] = 777]
        /\ (LastPassCall.kind = "pointer" /\ LastPassCall.arg = nullptr) => mem = memPrev
        /\ (passCalls = DemoCalls /\ mem0[ValueAddr] = 10) => observed = <<10, 10, 888, 777>>

C8_Witness ==
    /\ prog = "param" /\ passCalls = DemoCalls /\ mem0[ValueAddr] = 10
    /\ observed = <<10, 10, 888, 777>>

Said(what, i) == \E k \in 1..Len(ilog) : ilog[k] = Line(what, i)
At(what, i) == CHOOSE k \in 1..Len(ilog) : ilog[k] = Line(what, i)

\* C9: for every Dog, the Animal constructor body runs before the Dog
\* constructor body, and the Dog destructor body before the Animal
\* destructor body.
C9_ConstructionOrder ==
    prog = "inh" =>
        \A i \in AnimalIds :
            /\ animals[i] = "Dog" =>
                /\ Said("Animal constructor", i) /\ Said("Dog constructor", i)
                /\ At("Animal constructor", i) < At("Dog constructor", i)
            /\ (animals[i] = "destroyed" /\ Said("Dog constructor", i)) =>
                /\ At("Animal constructor", i) < At("Dog constructor", i)
                /\ Said("Dog destructor", i) /\ Said("Animal destructor", i)
                /\ At("Dog constructor", i) < At("Dog destructor", i)
                /\ At("Dog destructor", i) < At("Animal destructor", i)

C9_Witness ==
    /\ prog = "inh" /\ animals[1] = "destroyed"
    /\ ilog = <<Line("Animal constructor", 1), Line("Dog constructor", 1),
                Line("Dog destructor", 1), Line("Animal destructor", 1)>>

\* C10: SQUARE(a + b) is (a + b) squared and BAD_SQUARE(a + b) is
\* a + b*a + b; BAD_SQUARE(2 + 3) expands to 2 + 3 * 2 + 3, which is 11, and
\* SQUARE(2 + 3) to ((2 + 3) * (2 + 3)), which is 25.
C10_MacroExpansion ==
    LET a == macroUse.a
        b == macroUse.b
    IN  /\ macroUse.name = "SQUARE" => macroValue = (a + b) * (a + b)
        /\ macroUse.name = "BAD_SQUARE" => macroValue = a + (b * a) + b
        /\ macroUse = [name |-> "BAD_SQUARE", a |-> 2, b |-> 3] =>
            /\ expansion = <<Num(2), Tok("+"), Num(3), Tok("*"), Num(2), Tok("+"), Num(3)>>
            /\ macroValue = 11
        /\ macroUse = [name |-> "SQUARE", a |-> 2, b |-> 3] =>
            /\ expansion = <<Tok("("), Tok("("), Num(2), Tok("+"), Num(3), Tok(")"), Tok("*"),
                             Tok("("), Num(2), Tok("+"), Num(3), Tok(")"), Tok(")")>>
            /\ macroValue = 25

C10_Witness ==
    /\ macroUse = [name |-> "SQUARE", a |-> 2, b |-> 3]
    /\ macroValue = 25
QueueBounded ==
    /\ Len(buffer) <= DemoMaxSize
    /\ sizeAtPush < DemoMaxSize
    /\ (qpc["producer"] \in {"lockProduce", "produce"}) =>
           \A k \in 1..Len(buffer) : buffer[k] # pitem
    /\ (qpc["producer"] = "lockProduce" /\ blockedOn["producer"] = "notFull") =>
           \A k \in 1..Len(consumed) : consumed[k] # pitem
    /\ qpc["consumer"] = "done" => (finished /\ buffer = <<>>)

C12_RaceLosesUpdates ==
    prog = "race" =>
        /\ unsafeCounter <= Executed
        /\ RaceDone => (Executed = RaceThreads * RaceIterations /\ unsafeCounter >= 1)

C12_Witness ==
    /\ prog = "race"
    /\ RaceDone
    /\ Executed = RaceThreads * RaceIterations
    /\ unsafeCounter < RaceThreads * RaceIterations

\* C13: no std::thread object is destroyed while joinable, so main never
\* reaches std::terminate and runs its eight demonstrations to completion,
\* and no thread runs on after the demonstration that started it.
C13_ThreadsJoined ==
    prog = "main" =>
        /\ mainPc # "terminated"
        /\ mainPc \in {"call", "returned"} =>
               \A k \in 1..Len(threadRun) : threadRun[k] = "finished"
====
